---- MODULE Spec2Model ----
(***************************************************************************)
(* Model of the ov-checkin worker: the login-polling sessions kept in the  *)
(* TOKEN_KV namespace, the stored WeChat credential, the one-time login    *)
(* links and the scheduled check-in procedure.                             *)
(*                                                                         *)
(* Time is in milliseconds, as Date.now() is.  A KV key written with       *)
(* expirationTtl seconds is readable until the instant it expires.  The    *)
(* rate limits of the fetch handler (10 /auth requests per 5 minutes, 100  *)
(* /login-status requests per minute) only refuse requests; a refused      *)
(* request changes none of the keys modelled here.                         *)
(***************************************************************************)
EXTENDS Integers, Sequences, FiniteSets, TLC

\* ------------------------------------------------------------------ bounds
MaxSessions == 1
MaxLinks == 1
MaxAdvances == 2
MaxTickers == 2
MaxValidators == 2
MaxRunners == 3
StartTime == 1000000
HalfInactivityMs == 150001
HandlerMs == 2000
MaxSlow == 2
MaxIters == 3
PutLagMs == 10

\* ------------------------------------------------- constants of the program
\* WeChatLoginStatus: the stored status is the provider's wx_errcode
WAITING == 404
SCANNED == 408
CONFIRMED == 405
EXPIRED == 403
SERVER_ERROR == 500
ERROR == 1

SessionTtl == 300
CompletedTtl == 3600
InactivityMs == 300000
MinTokenTtl == 300
DefaultTokenMs == 259200000
LinkTtl == 86400
LinkLifeMs == 86400000
TimerMs == 1000
DriverTokenMs == 3600000

Terminal == {CONFIRMED, EXPIRED, SERVER_ERROR, ERROR}

Max(a, b) == IF a >= b THEN a ELSE b

\* --------------------------------------------------------------- KV store
\* kv.sess[i]  : the record under key pollingId i, with its expiry instant
\* kv.uuid[i]  : the key `${pollingId}_uuid`
\* kv.tok      : the key 'wechat_token'
\* kv.link[j]  : the key `onetime_${token}` of the j-th token now in the store
VARIABLES now, advances, kv, wx, last, g, pendingRun, tp, vp, rp, lp

vars == <<now, advances, kv, wx, last, g, pendingRun, tp, vp, rp, lp>>

NoToken == [has |-> FALSE, token |-> "", expire |-> 0, exp |-> 0]

EmptyKv == [sess |-> <<>>, uuid |-> <<>>, tok |-> NoToken, link |-> <<>>]

\* KVNamespace.get: a key is returned while it has not expired
SessLive(k, t, s) == s \in 1..Len(k.sess) /\ t < k.sess[s].exp
UuidLive(k, t, s) == s \in 1..Len(k.uuid) /\ t < k.uuid[s].exp
TokLive(k, t) == k.tok.has /\ t < k.tok.exp
LinkLive(k, t, j) == j \in 1..Len(k.link) /\ t < k.link[j].exp

\* ------------------------------------------------------ provider responses
Codes == {"c1"}
NoCode == ""

\* what the poll endpoint can answer: a thrown fetch, a non-2xx status, or a
\* body from which wx_errcode (0: no match) and wx_code are parsed
PollResponses ==
  {[net |-> "throw", errcode |-> 0, wxCode |-> NoCode],
   [net |-> "http500", errcode |-> 0, wxCode |-> NoCode]}
  \cup {[net |-> "ok", errcode |-> e, wxCode |-> c] :
          e \in {404, 408, 405, 403, 402, 0}, c \in Codes \cup {NoCode}}

\* pollWeChatLogin reporting 405 as confirmed whether or not a code came with it
pollWeChatLoginConfirmsWithoutCode(resp) ==
  IF resp.net = "throw"
    THEN [success |-> FALSE, status |-> 0, wxCode |-> NoCode, message |-> "fetch failed"]
  ELSE IF resp.net = "http500"
    THEN [success |-> FALSE, status |-> 500, wxCode |-> NoCode, message |-> "HTTP 500"]
  ELSE IF resp.errcode = 405
    THEN [success |-> TRUE, status |-> 405, wxCode |-> resp.wxCode, message |-> "scan confirmed"]
  ELSE IF resp.errcode = 403
    THEN [success |-> TRUE, status |-> 403, wxCode |-> NoCode, message |-> "qr expired"]
  ELSE IF resp.errcode = 404
    THEN [success |-> TRUE, status |-> 404, wxCode |-> NoCode, message |-> "waiting for scan"]
  ELSE LET status == IF resp.errcode # 0 THEN resp.errcode ELSE 200
       IN IF status = 408
            THEN [success |-> TRUE, status |-> 408, wxCode |-> NoCode, message |-> "scanned"]
            ELSE [success |-> FALSE, status |-> status, wxCode |-> NoCode, message |-> "unknown status"]

\* WeChatUtils.pollWeChatLogin
pollWeChatLogin(resp) ==
  IF resp.net = "throw"
    THEN [success |-> FALSE, status |-> 0, wxCode |-> NoCode, message |-> "fetch failed"]
  ELSE IF resp.net = "http500"
    THEN [success |-> FALSE, status |-> 500, wxCode |-> NoCode, message |-> "HTTP 500"]
  ELSE IF resp.errcode = 405 /\ resp.wxCode # NoCode
    THEN [success |-> TRUE, status |-> 405, wxCode |-> resp.wxCode, message |-> "scan confirmed"]
  ELSE IF resp.errcode = 403
    THEN [success |-> TRUE, status |-> 403, wxCode |-> NoCode, message |-> "qr expired"]
  ELSE IF resp.errcode = 404
    THEN [success |-> TRUE, status |-> 404, wxCode |-> NoCode, message |-> "waiting for scan"]
  ELSE LET status == IF resp.errcode # 0 THEN resp.errcode ELSE 200
       IN IF status = 408
            THEN [success |-> TRUE, status |-> 408, wxCode |-> NoCode, message |-> "scanned"]
            ELSE [success |-> FALSE, status |-> status, wxCode |-> NoCode, message |-> "unknown status"]

\* the signal vocabulary of the login provider, as the poll result carries it
SignalOf(r) ==
  IF ~r.success THEN (IF r.message = "unknown status" THEN "UNRECOGNIZED" ELSE "TRANSPORT")
  ELSE IF r.status = 404 THEN "STILL_WAITING"
  ELSE IF r.status = 408 THEN "SCANNED_PENDING_CONFIRM"
  ELSE IF r.status = 405 THEN "CONFIRMED"
  ELSE "CHALLENGE_EXPIRED"

\* what the exchange endpoint can answer at time t: Expire 0 stands for a
\* missing field, Token "" for a missing token
ExpireOffsets == {-1000, 1, 400500}

NoExchange == [net |-> "none", Token |-> "", Expire |-> 0]

ExchangeResponses(t) ==
  {[net |-> "throw", Token |-> "", Expire |-> 0],
   [net |-> "http500", Token |-> "", Expire |-> 0]}
  \cup {[net |-> "ok", Token |-> tk, Expire |-> e] :
          tk \in {"", "tokA"}, e \in {0} \cup {t + d : d \in ExpireOffsets}}

\* WeChatUtils.exchangeWeChatCode
exchangeWeChatCode(xr) ==
  IF xr.net = "throw"
    THEN [success |-> FALSE, token |-> "", expire |-> 0, message |-> "fetch failed"]
  ELSE IF xr.net = "http500"
    THEN [success |-> FALSE, token |-> "", expire |-> 0, message |-> "HTTP 500"]
  ELSE IF xr.Token # "" /\ xr.Expire # 0
    THEN [success |-> TRUE, token |-> "Bearer " \o xr.Token, expire |-> xr.Expire,
          message |-> ""]
  ELSE [success |-> FALSE, token |-> "", expire |-> 0, message |-> "token fetch failed"]

\* the check-in endpoint's answer: the Description text, or "throw" for a
\* failed fetch or a body without a Description
CheckinResponses == {"checked in", "already checked in", "outside time window",
                     "token invalid", "throw"}

\* CheckinUtils.submitCheckIn / performCheckin
performCheckin(cr) ==
  IF cr = "throw" THEN [success |-> FALSE, message |-> "Network error"]
  ELSE IF cr = "checked in" THEN [success |-> TRUE, message |-> cr]
  ELSE [success |-> FALSE, message |-> cr]

\* ------------------------------------------------------- one-time links
\* AuthUtils.generateOneTimeLink with KVStorage.storeOneTimeLink
generateOneTimeLink(k, t) ==
  [k EXCEPT !.link = Append(@, [purpose |-> "wechat_auth", createdAt |-> t,
                                expiresAt |-> t + LinkLifeMs,
                                exp |-> t + LinkTtl * 1000])]

\* KVStorage.getOneTimeLink: the stored data or nothing
getOneTimeLink(k, t, j) == LinkLive(k, t, j)

\* the kv.delete of KVStorage.consumeOneTimeLink: the key leaves the store
deleteOneTimeLink(k, j) ==
  IF j \in 1..Len(k.link)
    THEN [k EXCEPT !.link = SubSeq(@, 1, j - 1) \o SubSeq(@, j + 1, Len(@))]
    ELSE k

\* the checks of AuthUtils.validateOneTimeLink on the consumed data
linkDataValid(d, t) ==
  /\ d.purpose = "wechat_auth"
  /\ ~(d.expiresAt # 0 /\ d.expiresAt < t)

\* validateOneTimeLink reading the link without consuming it
validateOneTimeLinkKeepsLink(k, t, j) ==
  IF j = 0 THEN [kv |-> k, ok |-> FALSE]
  ELSE IF ~getOneTimeLink(k, t, j) THEN [kv |-> k, ok |-> FALSE]
  ELSE [kv |-> k, ok |-> linkDataValid(k.link[j], t)]

\* AuthUtils.validateOneTimeLink; token 0 is a string shorter than 32
\* characters, a token above Len(k.link) one that is not in the store
validateOneTimeLink(k, t, j) ==
  IF j = 0 THEN [kv |-> k, ok |-> FALSE]
  ELSE IF ~getOneTimeLink(k, t, j) THEN [kv |-> k, ok |-> FALSE]
  ELSE [kv |-> deleteOneTimeLink(k, j), ok |-> linkDataValid(k.link[j], t)]

\* ------------------------------------------------------ check-in procedure
\* what one run of scheduled() did: calls of the check-in endpoint, its
\* result, links generated, mails sent (in order), the endpoint's answer
NoRun == [ran |-> FALSE, checkin |-> 0, ok |-> FALSE, minted |-> 0, mails |-> <<>>,
          resp |-> "none", tokSame |-> TRUE]

\* sendEmail: every failure (incomplete configuration, an error answer of the
\* mail provider, an exception) is caught and returned as success: false
sendEmail(mailOk) ==
  [success |-> mailOk,
   message |-> IF mailOk THEN "Email sent successfully" ELSE "Unknown email error"]

\* handleAuthenticationRequired generating no link while one is in the store
handleAuthenticationRequiredReusesLink(k, t, mailOk) ==
  IF Len(k.link) > 0
    THEN [kv |-> k, minted |-> 0, mails |-> <<"LOGIN_REQUIRED">>]
    ELSE [kv |-> generateOneTimeLink(k, t), minted |-> 1, mails |-> <<"LOGIN_REQUIRED">>]

\* handleAuthenticationRequired deleting the credential it asks to renew
handleAuthenticationRequiredDropsToken(k, t, mailOk) ==
  [kv |-> [k EXCEPT !.tok = NoToken,
                    !.link = Append(@, [purpose |-> "wechat_auth", createdAt |-> t,
                                        expiresAt |-> t + LinkLifeMs,
                                        exp |-> t + LinkTtl * 1000])],
   minted |-> 1, mails |-> <<"LOGIN_REQUIRED">>]

\* handleAuthenticationRequired: the link is generated before the mail is
\* sent, and the result of the awaited sendEmail is dropped
handleAuthenticationRequired(k, t, mailOk) ==
  LET oneTimeLink == generateOneTimeLink(k, t)
      sent == sendEmail(mailOk)
  IN [kv |-> oneTimeLink, minted |-> 1, mails |-> <<"LOGIN_REQUIRED">>]

\* executeCheckin reporting a failed run when its notification fails
executeCheckinFailsOnMail(cr, mailOk) ==
  LET checkinResult == performCheckin(cr)
      sent == sendEmail(mailOk)
  IN IF checkinResult.success /\ sent.success
       THEN [success |-> TRUE, message |-> checkinResult.message,
             mails |-> <<"CHECKIN_SUCCESS">>]
       ELSE [success |-> FALSE, message |-> checkinResult.message,
             mails |-> <<"CHECKIN_SOFT_FAILURE">>]

\* CheckinService.executeCheckin; the result of the awaited sendEmail is dropped
executeCheckin(cr, mailOk) ==
  LET checkinResult == performCheckin(cr)
      sent == sendEmail(mailOk)
  IN IF checkinResult.success
       THEN [success |-> TRUE, message |-> checkinResult.message,
             mails |-> <<"CHECKIN_SUCCESS">>]
       ELSE [success |-> FALSE, message |-> checkinResult.message,
             mails |-> <<"CHECKIN_SOFT_FAILURE">>]

\* tokenUsable with the comparison relaxed to >=
tokenUsableAtExpiry(k, t) == k.tok.has /\ t < k.tok.exp /\ k.tok.expire >= t

\* the test `tokenInfo && tokenInfo.expire > Date.now()` of scheduled
tokenUsable(k, t) == TokLive(k, t) /\ k.tok.expire > t

\* scheduled stopping after an unsuccessful check-in
scheduledStopsOnFailure(k, t, in) ==
  IF in.readFails
    THEN [kv |-> k, run |-> [NoRun EXCEPT !.ran = TRUE, !.mails = <<"SYSTEM_ERROR">>]]
  ELSE IF tokenUsable(k, t)
    THEN LET result == executeCheckin(in.checkin, in.mailOk)
         IN [kv |-> k,
             run |-> [ran |-> TRUE, checkin |-> 1, ok |-> result.success, minted |-> 0,
                      mails |-> result.mails, resp |-> in.checkin, tokSame |-> TRUE]]
  ELSE LET a == handleAuthenticationRequired(k, t, in.mailOk)
       IN [kv |-> a.kv,
           run |-> [ran |-> TRUE, checkin |-> 0, ok |-> FALSE, minted |-> a.minted,
                    mails |-> a.mails, resp |-> "none",
                    tokSame |-> a.kv.tok = k.tok]]

\* scheduled() treating a failed read of the credential as a missing credential
scheduledReadFailureAsMissing(k, t, in) ==
  IF ~in.readFails /\ tokenUsable(k, t)
    THEN LET result == executeCheckin(in.checkin, in.mailOk)
         IN IF ~result.success
              THEN LET a == handleAuthenticationRequired(k, t, in.mailOk)
                   IN [kv |-> a.kv,
                       run |-> [ran |-> TRUE, checkin |-> 1, ok |-> FALSE,
                                minted |-> a.minted,
                                mails |-> result.mails \o a.mails, resp |-> in.checkin,
                                tokSame |-> a.kv.tok = k.tok]]
              ELSE [kv |-> k,
                    run |-> [ran |-> TRUE, checkin |-> 1, ok |-> TRUE, minted |-> 0,
                             mails |-> result.mails, resp |-> in.checkin,
                             tokSame |-> TRUE]]
  ELSE LET a == handleAuthenticationRequired(k, t, in.mailOk)
       IN [kv |-> a.kv,
           run |-> [ran |-> TRUE, checkin |-> 0, ok |-> FALSE, minted |-> a.minted,
                    mails |-> a.mails, resp |-> "none",
                    tokSame |-> a.kv.tok = k.tok]]

\* scheduled(): one run of the check-in procedure.  in.readFails: the KV read of
\* 'wechat_token' throws; in.checkin: the check-in endpoint's answer;
\* in.mailOk: whether the mail provider accepts the run's notifications
scheduled(k, t, in) ==
  IF in.readFails
    THEN [kv |-> k, run |-> [NoRun EXCEPT !.ran = TRUE, !.mails = <<"SYSTEM_ERROR">>]]
  ELSE IF tokenUsable(k, t)
    THEN LET result == executeCheckin(in.checkin, in.mailOk)
         IN IF ~result.success
              THEN LET a == handleAuthenticationRequired(k, t, in.mailOk)
                   IN [kv |-> a.kv,
                       run |-> [ran |-> TRUE, checkin |-> 1, ok |-> FALSE,
                                minted |-> a.minted,
                                mails |-> result.mails \o a.mails, resp |-> in.checkin,
                                tokSame |-> a.kv.tok = k.tok]]
              ELSE [kv |-> k,
                    run |-> [ran |-> TRUE, checkin |-> 1, ok |-> TRUE, minted |-> 0,
                             mails |-> result.mails, resp |-> in.checkin,
                             tokSame |-> TRUE]]
  ELSE LET a == handleAuthenticationRequired(k, t, in.mailOk)
       IN [kv |-> a.kv,
           run |-> [ran |-> TRUE, checkin |-> 0, ok |-> FALSE, minted |-> a.minted,
                    mails |-> a.mails, resp |-> "none",
                    tokSame |-> a.kv.tok = k.tok]]

\* the POST /trigger-checkin route running the procedure only when a usable
\* credential is stored
fetchTriggerCheckinNeedsToken(k, t, in) ==
  LET r == IF tokenUsable(k, t) THEN scheduled(k, t, in) ELSE [kv |-> k, run |-> NoRun]
  IN [kv |-> r.kv, run |-> r.run,
      response |-> [status |-> 200, success |-> TRUE, message |-> "Checkin triggered"]]

\* fetch, the POST /trigger-checkin route: awaits scheduled() with an empty
\* event and answers 200 whatever the run did
fetchTriggerCheckin(k, t, in) ==
  LET r == scheduled(k, t, in)
  IN [kv |-> r.kv, run |-> r.run,
      response |-> [status |-> 200, success |-> TRUE, message |-> "Checkin triggered"]]

NoRunInput == [readFails |-> FALSE, checkin |-> "none", mailOk |-> TRUE]

\* isTokenValid with the comparison relaxed to >=
isTokenValidAtExpiry(k, t) == k.tok.has /\ t < k.tok.exp /\ k.tok.expire >= t

\* TokenValidator.isTokenValid over KVStorage.getToken
isTokenValid(k, t) ==
  LET tokenInfo == IF TokLive(k, t) THEN k.tok ELSE NoToken
  IN tokenInfo.has /\ tokenInfo.expire > t

\* the inputs a run can meet in store k at time t: the check-in endpoint is
\* only asked when the credential read succeeded and the credential is usable
RunInputs(k, t) ==
  [readFails : {TRUE}, checkin : {"none"}, mailOk : BOOLEAN]
  \cup (IF tokenUsable(k, t)
         THEN [readFails : {FALSE}, checkin : CheckinResponses, mailOk : BOOLEAN]
         ELSE [readFails : {FALSE}, checkin : {"none"}, mailOk : BOOLEAN])

\* --------------------------------------------------------- polling service
\* the uuid getWeChatQRCode obtained from the provider for the login attempt
QrUuid == "uuid1"

\* startPollingSession: the status record and the uuid key, both with TTL 300
startPollingSession(k, t) ==
  [k EXCEPT !.sess = Append(@, [status |-> WAITING, message |-> "", wxCode |-> NoCode,
                                timestamp |-> t, exp |-> t + SessionTtl * 1000]),
            !.uuid = Append(@, [uuid |-> QrUuid, exp |-> t + SessionTtl * 1000])]

\* tickRead without the early return for a completed session
tickReadPollsCompleted(k, t, s) ==
  IF ~SessLive(k, t, s) THEN "notfound"
  ELSE IF ~UuidLive(k, t, s) THEN "nouuid"
  ELSE "poll"

\* tickRead going on to the poll without the uuid key
tickReadWithoutUuid(k, t, s) ==
  IF ~SessLive(k, t, s) THEN "notfound"
  ELSE IF k.sess[s].status \in Terminal THEN "completed"
  ELSE "poll"

\* the reads and early returns at the head of processPollingSession
tickRead(k, t, s) ==
  IF ~SessLive(k, t, s) THEN "notfound"
  ELSE IF k.sess[s].status \in Terminal THEN "completed"
  ELSE IF ~UuidLive(k, t, s) THEN "nouuid"
  ELSE "poll"

\* applyPoll recording the failure's message but not the ERROR status
applyPollIgnoresFailure(ps, lr) ==
  IF ~lr.success
    THEN [ps EXCEPT !.message = lr.message]
    ELSE [ps EXCEPT !.status = lr.status, !.message = lr.message,
                    !.wxCode = IF lr.wxCode # NoCode THEN lr.wxCode ELSE @]

\* applyPoll without the assignment of the provider's status code
applyPollKeepsStatus(ps, lr) ==
  IF ~lr.success
    THEN [ps EXCEPT !.status = ERROR, !.message = lr.message]
    ELSE [ps EXCEPT !.message = lr.message,
                    !.wxCode = IF lr.wxCode # NoCode THEN lr.wxCode ELSE @]

\* processPollingSession, the assignments that follow pollWeChatLogin
applyPoll(ps, lr) ==
  IF ~lr.success
    THEN [ps EXCEPT !.status = ERROR, !.message = lr.message]
    ELSE [ps EXCEPT !.status = lr.status, !.message = lr.message,
                    !.wxCode = IF lr.wxCode # NoCode THEN lr.wxCode ELSE @]

\* needExchange asking for an exchange after every successful poll
needExchangeAlways(lr) == lr.success

\* the test `loginResult.wxCode` that guards the exchange
needExchange(lr) == lr.success /\ lr.wxCode # NoCode

\* loginMails sending the mail whatever the exchange returned
loginMailsAlways(tr) == <<"LOGIN_SUCCESS">>

\* the mail processPollingSession sends once the token is stored
loginMails(tr) == IF tr.success /\ tr.token # "" THEN <<"LOGIN_SUCCESS">> ELSE <<>>

\* tokenTtlSeconds without the minimum
tokenTtlNoFloor(expireTime, t) == (expireTime - t) \div 1000

\* the TTL of the stored credential
tokenTtlSeconds(expireTime, t) == Max(MinTokenTtl, (expireTime - t) \div 1000)

\* applyExchange triggering the check-in before the credential is written
applyExchangeTriggerFirst(k, t, ps, tr, fetchOk, runIn, mailOk) ==
  IF tr.success /\ tr.token # ""
    THEN LET expireTime == IF tr.expire # 0 THEN tr.expire ELSE t + DefaultTokenMs
             r == IF fetchOk THEN fetchTriggerCheckin(k, t, runIn) ELSE [kv |-> k, run |-> NoRun]
             k1 == [r.kv EXCEPT !.tok = [has |-> TRUE, token |-> tr.token,
                                         expire |-> expireTime,
                                         exp |-> t + Max(MinTokenTtl, (expireTime - t) \div 1000) * 1000]]
         IN [kv |-> k1, ps |-> [ps EXCEPT !.status = CONFIRMED],
             mails |-> <<"LOGIN_SUCCESS">>, stored |-> TRUE,
             triggered |-> fetchOk, run |-> r.run]
    ELSE [kv |-> k, ps |-> [ps EXCEPT !.status = ERROR, !.message = tr.message],
          mails |-> <<>>, stored |-> FALSE, triggered |-> FALSE, run |-> NoRun]

\* applyExchange leaving a credential that is already stored alone
applyExchangeOnce(k, t, ps, tr, fetchOk, runIn, mailOk) ==
  IF tr.success /\ tr.token # "" /\ ~k.tok.has
    THEN LET expireTime == IF tr.expire # 0 THEN tr.expire ELSE t + DefaultTokenMs
             k1 == [k EXCEPT !.tok = [has |-> TRUE, token |-> tr.token,
                                      expire |-> expireTime,
                                      exp |-> t + Max(MinTokenTtl, (expireTime - t) \div 1000) * 1000]]
             r == IF fetchOk THEN fetchTriggerCheckin(k1, t, runIn) ELSE [kv |-> k1, run |-> NoRun]
         IN [kv |-> r.kv, ps |-> [ps EXCEPT !.status = CONFIRMED],
             mails |-> <<"LOGIN_SUCCESS">>, stored |-> TRUE,
             triggered |-> fetchOk, run |-> r.run]
    ELSE [kv |-> k, ps |-> [ps EXCEPT !.status = IF tr.success THEN CONFIRMED ELSE ERROR,
                                      !.message = tr.message],
          mails |-> <<>>, stored |-> FALSE, triggered |-> FALSE, run |-> NoRun]

\* applyExchange without the branch that records a failed exchange
applyExchangeDropsFailure(k, t, ps, tr, fetchOk, runIn, mailOk) ==
  IF tr.success /\ tr.token # ""
    THEN LET expireTime == IF tr.expire # 0 THEN tr.expire ELSE t + DefaultTokenMs
             k1 == [k EXCEPT !.tok = [has |-> TRUE, token |-> tr.token,
                                      expire |-> expireTime,
                                      exp |-> t + Max(MinTokenTtl, (expireTime - t) \div 1000) * 1000]]
             r == IF fetchOk THEN fetchTriggerCheckin(k1, t, runIn) ELSE [kv |-> k1, run |-> NoRun]
         IN [kv |-> r.kv, ps |-> [ps EXCEPT !.status = CONFIRMED],
             mails |-> <<"LOGIN_SUCCESS">>, stored |-> TRUE,
             triggered |-> fetchOk, run |-> r.run]
    ELSE [kv |-> k, ps |-> ps,
          mails |-> <<>>, stored |-> FALSE, triggered |-> FALSE, run |-> NoRun]

\* KVStorage.setToken
setToken(k, t, tokenInfo) ==
  LET ttlSeconds == Max(MinTokenTtl, (tokenInfo.expire - t) \div 1000)
  IN [k EXCEPT !.tok = [has |-> TRUE, token |-> tokenInfo.token,
                        expire |-> tokenInfo.expire, exp |-> t + ttlSeconds * 1000]]

\* processPollingSession, the branch taken when the poll carried a wx_code:
\* store the token, mail, trigger the check-in, or record the failure.
\* fetchOk: the POST to /trigger-checkin reaches the worker; runIn: the inputs
\* of the check-in run it starts; mailOk: whether the mail provider accepts the
\* login-success mail, whose awaited result is dropped
applyExchange(k, t, ps, tr, fetchOk, runIn, mailOk) ==
  IF tr.success /\ tr.token # ""
    THEN LET expireTime == IF tr.expire # 0 THEN tr.expire ELSE t + DefaultTokenMs
             ttlSeconds == tokenTtlSeconds(expireTime, t)
             sent == sendEmail(mailOk)
             k1 == [k EXCEPT !.tok = [has |-> TRUE, token |-> tr.token,
                                      expire |-> expireTime,
                                      exp |-> t + ttlSeconds * 1000]]
             r == IF fetchOk THEN fetchTriggerCheckin(k1, t, runIn) ELSE [kv |-> k1, run |-> NoRun]
         IN [kv |-> r.kv, ps |-> [ps EXCEPT !.status = CONFIRMED],
             mails |-> loginMails(tr), stored |-> TRUE,
             triggered |-> fetchOk, run |-> r.run]
    ELSE [kv |-> k, ps |-> [ps EXCEPT !.status = ERROR, !.message = tr.message],
          mails |-> loginMails(tr), stored |-> FALSE, triggered |-> FALSE, run |-> NoRun]

\* statusTtl keeping every session that has left WAITING for a week
statusTtlLong(status) == IF status = WAITING THEN SessionTtl ELSE 7 * 86400

\* the TTL of the final put of processPollingSession
statusTtl(status) == IF status = WAITING THEN SessionTtl ELSE CompletedTtl

\* the final put of processPollingSession
writeSession(k, t, s, ps) ==
  [k EXCEPT !.sess[s] = [ps EXCEPT !.exp = t + statusTtl(ps.status) * 1000]]

NoTick == [outcome |-> "notfound", sig |-> "", detail |-> "", code |-> NoCode, xok |-> FALSE,
           noExpiry |-> FALSE,
           mails |-> <<>>, stored |-> FALSE, triggered |-> FALSE, status |-> 0]

\* processPollingSession as one call.  in.poll, in.xchg: the provider's answers;
\* in.fetchOk, in.run, in.mailOk: see applyExchange
processPollingSession(k, t, s, in) ==
  LET o == tickRead(k, t, s)
  IN IF o # "poll"
       THEN [kv |-> k, tick |-> [NoTick EXCEPT !.outcome = o], run |-> NoRun]
       ELSE LET lr == pollWeChatLogin(in.poll)
                ps == applyPoll(k.sess[s], lr)
            IN IF lr.success /\ needExchange(lr)
                 THEN LET tr == exchangeWeChatCode(in.xchg)
                          a == applyExchange(k, t, ps, tr, in.fetchOk, in.run, in.mailOk)
                      IN [kv |-> writeSession(a.kv, t, s, a.ps),
                          tick |-> [outcome |-> "polled", sig |-> SignalOf(lr),
                                    detail |-> lr.message, code |-> lr.wxCode, xok |-> a.stored,
                                    noExpiry |-> in.xchg.net = "ok" /\ in.xchg.Token # ""
                                                   /\ in.xchg.Expire = 0,
                                    mails |-> a.mails, stored |-> a.stored,
                                    triggered |-> a.triggered, status |-> a.ps.status],
                          run |-> a.run]
                 ELSE [kv |-> writeSession(k, t, s, ps),
                       tick |-> [NoTick EXCEPT !.outcome = "polled", !.sig = SignalOf(lr),
                                               !.detail = lr.message,
                                               !.status = ps.status],
                       run |-> NoRun]

\* sessionExpired measured against the one-hour TTL of completed sessions
sessionExpiredAfterTtl(ps, t) == t - ps.timestamp > CompletedTtl * 1000

\* the test `Date.now() - pollingStatus.timestamp > 5 * 60 * 1000`
sessionExpired(ps, t) == t - ps.timestamp > InactivityMs

NoRet == [success |-> FALSE, status |-> "", message |-> ""]

\* getPollingStatus answering with the status it read, before the expiry test
getPollingStatusReturnsRead(k, t, s) ==
  IF ~SessLive(k, t, s) THEN [kv |-> k, ret |-> NoRet]
  ELSE LET expired == sessionExpired(k.sess[s], t)
       IN [kv |-> IF expired
                    THEN [k EXCEPT !.sess[s].status = EXPIRED,
                                   !.sess[s].exp = t + CompletedTtl * 1000]
                    ELSE k,
           ret |-> [success |-> TRUE, status |-> ToString(k.sess[s].status),
                    message |-> k.sess[s].message]]

\* getPollingStatus answering with the whole record it read and the uuid key
getPollingStatusReturnsRecord(k, t, s) ==
  IF ~SessLive(k, t, s) THEN [kv |-> k, ret |-> NoRet]
  ELSE LET expired == sessionExpired(k.sess[s], t)
           pollingStatus == IF expired THEN [k.sess[s] EXCEPT !.status = EXPIRED]
                                       ELSE k.sess[s]
       IN [kv |-> IF expired
                    THEN [k EXCEPT !.sess[s] = [pollingStatus EXCEPT
                                                  !.exp = t + CompletedTtl * 1000]]
                    ELSE k,
           ret |-> [success |-> TRUE, status |-> ToString(pollingStatus.status),
                    message |-> pollingStatus.message,
                    wxCode |-> pollingStatus.wxCode,
                    uuid |-> k.uuid[s].uuid]]

\* getPollingStatus answering EXPIRED for a session that is not in the store
getPollingStatusAnswersMissing(k, t, s) ==
  IF ~SessLive(k, t, s)
    THEN [kv |-> k, ret |-> [success |-> TRUE, status |-> ToString(EXPIRED), message |-> ""]]
  ELSE LET expired == sessionExpired(k.sess[s], t)
           pollingStatus == IF expired THEN [k.sess[s] EXCEPT !.status = EXPIRED]
                                       ELSE k.sess[s]
       IN [kv |-> IF expired
                    THEN [k EXCEPT !.sess[s] = [pollingStatus EXCEPT
                                                  !.exp = t + CompletedTtl * 1000]]
                    ELSE k,
           ret |-> [success |-> TRUE, status |-> ToString(pollingStatus.status),
                    message |-> pollingStatus.message]]

\* getPollingStatus: the status is returned as `pollingStatus.status.toString()`,
\* the decimal text of the status code
getPollingStatus(k, t, s) ==
  IF ~SessLive(k, t, s) THEN [kv |-> k, ret |-> NoRet]
  ELSE LET expired == sessionExpired(k.sess[s], t)
           pollingStatus == IF expired THEN [k.sess[s] EXCEPT !.status = EXPIRED]
                                       ELSE k.sess[s]
       IN [kv |-> IF expired
                    THEN [k EXCEPT !.sess[s] = [pollingStatus EXCEPT
                                                  !.exp = t + CompletedTtl * 1000]]
                    ELSE k,
           ret |-> [success |-> TRUE, status |-> ToString(pollingStatus.status),
                    message |-> pollingStatus.message]]

\* handleAuthRequest going on to the QR code whatever the validation said
handleAuthRequestSkipsValidation(k, t, j, qrOk) ==
  LET v == validateOneTimeLink(k, t, j)
  IN IF ~qrOk THEN [kv |-> v.kv, valid |-> v.ok, started |-> FALSE]
     ELSE [kv |-> startPollingSession(v.kv, t), valid |-> v.ok, started |-> TRUE]

\* handleAuthRequest: validate the link, fetch the QR code (qrOk), start polling
handleAuthRequest(k, t, j, qrOk) ==
  LET v == validateOneTimeLink(k, t, j)
  IN IF ~v.ok THEN [kv |-> v.kv, valid |-> FALSE, started |-> FALSE]
     ELSE IF ~qrOk THEN [kv |-> v.kv, valid |-> TRUE, started |-> FALSE]
     ELSE [kv |-> startPollingSession(v.kv, t), valid |-> TRUE, started |-> TRUE]

\* ------------------------------------------------------------ observations
\* last: what the most recent request did; g[s]: what has happened to session s
NoLast == [op |-> "none", s |-> 0, tick |-> NoTick, ret |-> NoRet,
           idle |-> FALSE, live |-> FALSE, run |-> NoRun, afterConf |-> FALSE,
           cred |-> "none", valid |-> FALSE, started |-> FALSE, mailOk |-> TRUE]

\* the credential a run finds in the store at time t
CredOf(tok, t, readFails) ==
  IF readFails THEN "unreadable"
  ELSE IF ~(tok.has /\ t < tok.exp) THEN "missing"
  ELSE IF tok.expire <= t THEN "expired"
  ELSE "valid"

\* pat, patSt follow the scenario of signals Scenario: pat is the number of polls
\* made while the signals received are a prefix of it (-1 once they are not),
\* patSt the status each of these polls stored, patCode the code of the last
\* one and patX whether its exchange succeeded.  nmail, ntok, exch: the mails
\* sent, the credential writes made and the codes exchanged by the session's
\* ticks.  confirmed: a tick stored
\* CONFIRMED; conf: it did so with a credential valid at that moment, and nextQ
\* is the status the next /login-status request returned
NoG == [lastTick |-> 0, nmail |-> 0, ntok |-> 0, exch |-> <<>>, pat |-> 0, patSt |-> <<>>,
        patX |-> FALSE, patCode |-> NoCode, confirmed |-> FALSE, conf |-> FALSE,
        nextQ |-> ""]

Scenario == <<"STILL_WAITING", "STILL_WAITING", "SCANNED_PENDING_CONFIRM", "CONFIRMED">>

SessionIds == 1..MaxSessions

Deltas == {1, InactivityMs, CompletedTtl * 1000}

NoPoll == [net |-> "none", errcode |-> 0, wxCode |-> NoCode]

\* a tick in progress: where it is in processPollingSession, its local
\* pollingStatus, the poll result it holds and what its exchange call returned
NoPs == [status |-> 0, message |-> "", wxCode |-> NoCode, timestamp |-> 0, exp |-> 0]

NoLr == [success |-> FALSE, status |-> 0, wxCode |-> NoCode, message |-> ""]

IdleTick == [pc |-> "idle", ps |-> NoPs, lr |-> NoLr, xres |-> "none"]

\* a validateOneTimeLink call in progress: where it is, whether the get found
\* the data, the data, and what it returned
NoLinkData == [purpose |-> "", createdAt |-> 0, expiresAt |-> 0, exp |-> 0]

IdleValidator == [pc |-> "idle", found |-> FALSE, data |-> NoLinkData, ok |-> FALSE]

\* a run of scheduled() in progress: where it is, whether it read a usable
\* credential, the check-ins it submitted, the links it generated, its mails,
\* and whether another run was in progress while it was
IdleRunner == [pc |-> "idle", valid |-> FALSE, checkin |-> 0, minted |-> 0,
               mails |-> <<>>, ov |-> FALSE]

\* the LoginPolling driver of one session: timers pending, iterations run,
\* polls of the provider made, and what the last iteration found, received
\* and scheduled
IdlePolling == [timers |-> 0, iters |-> 0, polls |-> 0, found |-> "none", sig |-> "",
                sched |-> 0]

Init ==
  /\ now = StartTime
  /\ advances = 0
  /\ kv = EmptyKv
  /\ wx = "waiting"
  /\ last = NoLast
  /\ g = [s \in SessionIds |-> NoG]
  /\ pendingRun = FALSE
  /\ tp = [p \in 1..MaxTickers |-> IdleTick]
  /\ vp = [p \in 1..MaxValidators |-> IdleValidator]
  /\ rp = [r \in 1..MaxRunners |-> IdleRunner]
  /\ lp = IdlePolling

\* time passes
Advance ==
  /\ advances < MaxAdvances
  /\ \E d \in Deltas : now' = now + d
  /\ advances' = advances + 1
  /\ last' = NoLast
  /\ UNCHANGED <<kv, wx, g, pendingRun, tp, vp, rp, lp>>

\* a run of scheduled(), from the cron trigger or from POST /trigger-checkin
RunCheckin(op) ==
  \E in \in RunInputs(kv, now) :
    LET r == IF op = "manual" THEN fetchTriggerCheckin(kv, now, in)
                              ELSE scheduled(kv, now, in)
    IN /\ Len(r.kv.link) <= MaxLinks
       /\ kv' = r.kv
       /\ last' = [NoLast EXCEPT !.op = op, !.run = r.run, !.afterConf = pendingRun,
                                 !.cred = CredOf(kv.tok, now, in.readFails),
                                 !.mailOk = in.mailOk]
       /\ pendingRun' = FALSE
       /\ UNCHANGED <<now, advances, wx, g, tp, vp, rp, lp>>

Scheduled == RunCheckin("cron")

TriggerCheckin == RunCheckin("manual")

\* GET /auth/{token}
AuthRequest ==
  \E j \in 0..(MaxLinks + 1), qrOk \in BOOLEAN :
    LET r == handleAuthRequest(kv, now, j, qrOk)
    IN /\ Len(r.kv.sess) <= MaxSessions
       /\ kv' = r.kv
       /\ last' = [NoLast EXCEPT !.op = "auth", !.s = j,
                                 !.valid = r.valid, !.started = r.started]
       /\ g' = IF r.started
                 THEN [g EXCEPT ![Len(r.kv.sess)].lastTick = now]
                 ELSE g
       /\ UNCHANGED <<now, advances, wx, pendingRun, tp, vp, rp, lp>>

\* the scenario monitor after a tick
NextPat(gs, tk) ==
  IF tk.outcome # "polled" \/ gs.pat = -1 \/ gs.pat = Len(Scenario) THEN gs
  ELSE IF tk.sig # Scenario[gs.pat + 1] THEN [gs EXCEPT !.pat = -1, !.patSt = <<>>]
  ELSE [gs EXCEPT !.pat = @ + 1, !.patSt = Append(@, tk.status),
                  !.patX = tk.xok, !.patCode = tk.code]

\* the inputs of the run a tick triggers
CheckinInputs ==
  [readFails : {TRUE}, checkin : {"none"}, mailOk : BOOLEAN]
  \cup [readFails : {FALSE}, checkin : CheckinResponses, mailOk : BOOLEAN]

\* the tick stored CONFIRMED with a credential that is valid at that moment
ConfirmedValid(k, t, tk) == tk.stored /\ k.tok.expire > t

\* the inputs a tick on session s can meet in store k at time t: the exchange
\* is only called after a poll that carried a code, the mail and the trigger
\* only follow a successful exchange, the run only a trigger that arrived
TickInputs(k, t, s) ==
  UNION { UNION { UNION { UNION {
    { [poll |-> p, xchg |-> x, fetchOk |-> f, run |-> ri, mailOk |-> m] :
        ri \in (IF f THEN CheckinInputs ELSE {NoRunInput}) } :
      f \in (IF exchangeWeChatCode(x).success THEN BOOLEAN ELSE {FALSE}) } :
      m \in (IF exchangeWeChatCode(x).success THEN BOOLEAN ELSE {TRUE}) } :
      x \in (IF p.net = "ok" /\ needExchange(pollWeChatLogin(p))
               THEN ExchangeResponses(t) ELSE {NoExchange}) } :
      p \in (IF tickRead(k, t, s) = "poll" THEN PollResponses ELSE {NoPoll}) }

\* GET /login-status?pollingId=s: processPollingSession, then getPollingStatus
LoginStatus(s) ==
  \E in \in TickInputs(kv, now, s) :
    LET ri == in.run
        a == processPollingSession(kv, now, s, in)
        b == getPollingStatus(a.kv, now, s)
        tk == a.tick
        live == SessLive(kv, now, s)
        cv == ConfirmedValid(a.kv, now, tk)
    IN /\ Len(b.kv.link) <= MaxLinks
       /\ kv' = b.kv
       /\ last' = [NoLast EXCEPT !.op = "login-status", !.s = s,
                                 !.tick = tk, !.ret = b.ret, !.live = live,
                                 !.idle = live /\ now - g[s].lastTick > InactivityMs,
                                 !.run = a.run, !.afterConf = tk.triggered,
                                 !.cred = IF tk.triggered
                                            THEN CredOf(a.kv.tok, now, ri.readFails)
                                            ELSE "none",
                                 !.mailOk = in.mailOk /\ ri.mailOk]
       /\ g' = [g EXCEPT
                  ![s] = [NextPat(g[s], tk) EXCEPT
                            !.lastTick = IF live THEN now ELSE @,
                            !.nmail = @ + Len(tk.mails),
                            !.ntok = @ + (IF tk.stored THEN 1 ELSE 0),
                            !.exch = IF tk.code # NoCode THEN Append(@, tk.code) ELSE @,
                            !.nextQ = IF g[s].conf /\ @ = "" /\ b.ret.success
                                        THEN b.ret.status ELSE @,
                            !.confirmed = @ \/ tk.status = CONFIRMED,
                            !.conf = @ \/ cv]]
       /\ pendingRun' = IF tk.triggered THEN FALSE
                        ELSE IF cv THEN TRUE ELSE pendingRun
       /\ UNCHANGED <<now, advances, wx, tp, vp, rp, lp>>

Next ==
  \/ Advance
  \/ Scheduled
  \/ TriggerCheckin
  \/ AuthRequest
  \/ \E s \in SessionIds : LoginStatus(s)

Spec == Init /\ [][Next]_vars

\* ----------------------------------------------------- concurrent requests
\* Requests of the worker run concurrently and KV gives no atomic
\* read-modify-write: every await of a handler is a point where another
\* request can run.  SpecRace starts from a state Spec reaches (a link was
\* used to start session 1, a second link was generated since) and runs up to
\* MaxTickers calls of processPollingSession on session 1 and MaxValidators
\* calls of validateOneTimeLink on link 1, step by step.

\* the provider's side of the login: it only moves forward
ProviderStages == {"waiting", "scanned", "confirmed", "expired"}

ProviderMoves ==
  {<<"waiting", "scanned">>, <<"scanned", "confirmed">>,
   <<"waiting", "expired">>, <<"scanned", "expired">>}

\* what the poll endpoint answers at a stage
ProviderAnswer(stage) ==
  [net |-> "ok",
   errcode |-> CASE stage = "waiting" -> 404
                 [] stage = "scanned" -> 408
                 [] stage = "confirmed" -> 405
                 [] OTHER -> 403,
   wxCode |-> IF stage = "confirmed" THEN "c1" ELSE NoCode]

RaceSession == 1

RaceLink == 1

InitRace ==
  /\ now = StartTime
  /\ advances = 0
  /\ kv = generateOneTimeLink(startPollingSession(EmptyKv, StartTime), StartTime)
  /\ wx = "waiting"
  /\ last = NoLast
  /\ g = [s \in SessionIds |-> NoG]
  /\ pendingRun = FALSE
  /\ tp = [p \in 1..MaxTickers |-> IdleTick]
  /\ vp = [p \in 1..MaxValidators |-> IdleValidator]
  /\ rp = [r \in 1..MaxRunners |-> IdleRunner]
  /\ lp = IdlePolling

ProviderAdvance ==
  /\ \E m \in ProviderMoves : wx = m[1] /\ wx' = m[2]
  /\ UNCHANGED <<now, advances, kv, last, g, pendingRun, tp, vp, rp, lp>>

\* processPollingSession up to its first await after the reads
TickRead(p) ==
  /\ tp[p].pc = "idle"
  /\ tp' = [tp EXCEPT ![p] =
              IF tickRead(kv, now, RaceSession) = "poll"
                THEN [IdleTick EXCEPT !.pc = "read", !.ps = kv.sess[RaceSession]]
                ELSE [IdleTick EXCEPT !.pc = "done"]]
  /\ UNCHANGED <<now, advances, kv, wx, last, g, pendingRun, vp, rp, lp>>

\* await pollWeChatLogin(uuid) and the assignments that follow it
TickPoll(p) ==
  /\ tp[p].pc = "read"
  /\ LET lr == pollWeChatLogin(ProviderAnswer(wx))
     IN tp' = [tp EXCEPT ![p] = [pc |-> IF needExchange(lr) THEN "exchange" ELSE "write",
                                 ps |-> applyPoll(tp[p].ps, lr), lr |-> lr,
                                 xres |-> "none"]]
  /\ UNCHANGED <<now, advances, kv, wx, last, g, pendingRun, vp, rp, lp>>

\* await exchangeWeChatCode(wxCode), the token put, the mail and the trigger.
\* No link is generated during the race, so that RaceLink names one token
TickExchange(p) ==
  /\ tp[p].pc = "exchange"
  /\ \E x \in ExchangeResponses(now) :
     \E f \in (IF exchangeWeChatCode(x).success THEN BOOLEAN ELSE {FALSE}) :
     \E ri \in (IF f THEN CheckinInputs ELSE {NoRunInput}) :
     \E m \in (IF exchangeWeChatCode(x).success THEN BOOLEAN ELSE {TRUE}) :
       LET tr == exchangeWeChatCode(x)
           a == applyExchange(kv, now, tp[p].ps, tr, f, ri, m)
       IN /\ Len(a.kv.link) <= Len(kv.link)
          /\ kv' = a.kv
          /\ tp' = [tp EXCEPT ![p].pc = "write", ![p].ps = a.ps,
                               ![p].xres = IF tr.success THEN "ok" ELSE "failed"]
          /\ g' = [g EXCEPT ![RaceSession].exch = Append(@, tp[p].lr.wxCode),
                            ![RaceSession].nmail = @ + Len(a.mails),
                            ![RaceSession].ntok = @ + (IF a.stored THEN 1 ELSE 0)]
  /\ UNCHANGED <<now, advances, wx, last, pendingRun, vp, rp, lp>>

\* the final put of processPollingSession
TickWrite(p) ==
  /\ tp[p].pc = "write"
  /\ kv' = writeSession(kv, now, RaceSession, tp[p].ps)
  /\ tp' = [tp EXCEPT ![p].pc = "done"]
  /\ UNCHANGED <<now, advances, wx, last, g, pendingRun, vp, rp, lp>>

\* validateOneTimeLink up to the kv.get of consumeOneTimeLink
ValidateGet(v) ==
  /\ vp[v].pc = "idle"
  /\ vp' = [vp EXCEPT ![v] =
              IF getOneTimeLink(kv, now, RaceLink)
                THEN [pc |-> "got", found |-> TRUE, data |-> kv.link[RaceLink], ok |-> FALSE]
                ELSE [IdleValidator EXCEPT !.pc = "done"]]
  /\ UNCHANGED <<now, advances, kv, wx, last, g, pendingRun, tp, rp, lp>>

\* the kv.delete of consumeOneTimeLink and the checks on the data it returned
ValidateDelete(v) ==
  /\ vp[v].pc = "got"
  /\ kv' = deleteOneTimeLink(kv, RaceLink)
  /\ vp' = [vp EXCEPT ![v].pc = "done", ![v].ok = linkDataValid(vp[v].data, now)]
  /\ UNCHANGED <<now, advances, wx, last, g, pendingRun, tp, rp, lp>>

NextRace ==
  \/ ProviderAdvance
  \/ \E p \in 1..MaxTickers : TickRead(p)
  \/ \E p \in 1..MaxTickers : TickPoll(p)
  \/ \E p \in 1..MaxTickers : TickExchange(p)
  \/ \E p \in 1..MaxTickers : TickWrite(p)
  \/ \E v \in 1..MaxValidators : ValidateGet(v)
  \/ \E v \in 1..MaxValidators : ValidateDelete(v)

SpecRace == InitRace /\ [][NextRace]_vars

\* --------------------------------------------------------- overlapping runs
\* MaxRunners invocations of scheduled() that overlap: each is cut at its
\* awaits (the read of 'wechat_token', executeCheckin, and
\* handleAuthenticationRequired).  They start from the empty store or from a
\* store that a completed login has left, with a credential that expires
\* d milliseconds later
LoggedInStore(d) ==
  processPollingSession(startPollingSession(EmptyKv, StartTime), StartTime, 1,
                        [poll |-> [net |-> "ok", errcode |-> 405, wxCode |-> "c1"],
                         xchg |-> [net |-> "ok", Token |-> "tokA",
                                   Expire |-> StartTime + d],
                         fetchOk |-> FALSE, run |-> NoRunInput, mailOk |-> TRUE]).kv

InitRuns ==
  /\ now = StartTime
  /\ advances = 0
  /\ kv \in {EmptyKv} \cup {LoggedInStore(d) : d \in ExpireOffsets}
  /\ wx = "waiting"
  /\ last = NoLast
  /\ g = [s \in SessionIds |-> NoG]
  /\ pendingRun = FALSE
  /\ tp = [p \in 1..MaxTickers |-> IdleTick]
  /\ vp = [p \in 1..MaxValidators |-> IdleValidator]
  /\ rp = [r \in 1..MaxRunners |-> IdleRunner]
  /\ lp = IdlePolling

RunBusy(r) == rp[r].pc \in {"checkin", "auth"}

\* scheduled() up to the test of the credential it read
RunRead(r) ==
  /\ rp[r].pc = "idle"
  /\ \E readFails \in BOOLEAN :
       rp' = [q \in 1..MaxRunners |->
                IF q = r
                  THEN IF readFails
                         THEN [IdleRunner EXCEPT !.pc = "done",
                                                 !.mails = <<"SYSTEM_ERROR">>]
                         ELSE [IdleRunner EXCEPT
                                 !.pc = IF tokenUsable(kv, now) THEN "checkin" ELSE "auth",
                                 !.valid = tokenUsable(kv, now),
                                 !.ov = \E o \in 1..MaxRunners : o # r /\ RunBusy(o)]
                ELSE IF RunBusy(q) /\ ~readFails THEN [rp[q] EXCEPT !.ov = TRUE]
                ELSE rp[q]]
  /\ UNCHANGED <<now, advances, kv, wx, last, g, pendingRun, tp, vp, lp>>

\* await CheckinService.executeCheckin and the test of its result
RunSubmit(r) ==
  /\ rp[r].pc = "checkin"
  /\ \E cr \in CheckinResponses, m \in BOOLEAN :
       LET result == executeCheckin(cr, m)
       IN rp' = [rp EXCEPT ![r].checkin = @ + 1,
                           ![r].mails = @ \o result.mails,
                           ![r].pc = IF result.success THEN "done" ELSE "auth"]
  /\ UNCHANGED <<now, advances, kv, wx, last, g, pendingRun, tp, vp, lp>>

\* await handleAuthenticationRequired
RunAuth(r) ==
  /\ rp[r].pc = "auth"
  /\ \E m \in BOOLEAN :
       LET a == handleAuthenticationRequired(kv, now, m)
       IN /\ kv' = a.kv
          /\ rp' = [rp EXCEPT ![r].minted = @ + a.minted,
                              ![r].mails = @ \o a.mails,
                              ![r].pc = "done"]
  /\ UNCHANGED <<now, advances, wx, last, g, pendingRun, tp, vp, lp>>

NextRuns ==
  \/ \E r \in 1..MaxRunners : RunRead(r)
  \/ \E r \in 1..MaxRunners : RunSubmit(r)
  \/ \E r \in 1..MaxRunners : RunAuth(r)

SpecRuns == InitRuns /\ [][NextRuns]_vars

\* ------------------------------------------------- requests at a steady pace
\* the same requests, with time passing in steps of a little more than half
\* the inactivity bound: a client that keeps asking for the login status
AdvanceHalf ==
  /\ advances < MaxAdvances
  /\ now' = now + HalfInactivityMs
  /\ advances' = advances + 1
  /\ last' = NoLast
  /\ UNCHANGED <<kv, wx, g, pendingRun, tp, vp, rp, lp>>

NextPaced ==
  \/ AdvanceHalf
  \/ Scheduled
  \/ TriggerCheckin
  \/ AuthRequest
  \/ \E s \in SessionIds : LoginStatus(s)

SpecPaced == Init /\ [][NextPaced]_vars

\* ------------------------------------------- a request that takes its time
\* GET /login-status awaits the provider, the exchange, the mail and the
\* triggered run between the tick's reads and the `Date.now()` of
\* getPollingStatus: the query's clock is the tick's clock or HandlerMs later
LateStepMs == InactivityMs - HandlerMs \div 2

AdvanceLate ==
  /\ advances < MaxAdvances
  /\ now' = now + LateStepMs
  /\ advances' = advances + 1
  /\ last' = NoLast
  /\ UNCHANGED <<kv, wx, g, pendingRun, tp, vp, rp, lp>>

LoginStatusSlow(s) ==
  \E in \in TickInputs(kv, now, s), d \in {0, HandlerMs} :
    LET ri == in.run
        a == processPollingSession(kv, now, s, in)
        b == getPollingStatus(a.kv, now + d, s)
        tk == a.tick
        live == SessLive(kv, now, s)
        cv == ConfirmedValid(a.kv, now, tk)
    IN /\ Len(b.kv.link) <= MaxLinks
       /\ now + d - StartTime - advances * LateStepMs <= MaxSlow * HandlerMs
       /\ kv' = b.kv
       /\ now' = now + d
       /\ last' = [NoLast EXCEPT !.op = "login-status", !.s = s,
                                 !.tick = tk, !.ret = b.ret, !.live = live,
                                 !.idle = live /\ now - g[s].lastTick > InactivityMs,
                                 !.run = a.run, !.afterConf = tk.triggered,
                                 !.cred = IF tk.triggered
                                            THEN CredOf(a.kv.tok, now, ri.readFails)
                                            ELSE "none",
                                 !.mailOk = in.mailOk /\ ri.mailOk]
       /\ g' = [g EXCEPT
                  ![s] = [NextPat(g[s], tk) EXCEPT
                            !.lastTick = IF live THEN now ELSE @,
                            !.nmail = @ + Len(tk.mails),
                            !.ntok = @ + (IF tk.stored THEN 1 ELSE 0),
                            !.exch = IF tk.code # NoCode THEN Append(@, tk.code) ELSE @,
                            !.nextQ = IF g[s].conf /\ @ = "" /\ b.ret.success
                                        THEN b.ret.status ELSE @,
                            !.confirmed = @ \/ tk.status = CONFIRMED,
                            !.conf = @ \/ cv]]
       /\ pendingRun' = IF tk.triggered THEN FALSE
                        ELSE IF cv THEN TRUE ELSE pendingRun
       /\ UNCHANGED <<advances, wx, tp, vp, rp, lp>>

\* ------------------------------------------------------ a session over time
\* one started session, the status requests on it, and time that keeps
\* passing until every key a tick can have written has expired: a tick writes
\* only while the uuid key (SessionTtl) is in the store, with a TTL of at most
\* CompletedTtl
LiveHorizonMs == (SessionTtl + CompletedTtl) * 1000

LiveDeltas == {HalfInactivityMs, CompletedTtl * 1000}

InitLive ==
  /\ now = StartTime
  /\ advances = 0
  /\ kv = startPollingSession(EmptyKv, StartTime)
  /\ wx = "waiting"
  /\ last = NoLast
  /\ g = [s \in SessionIds |-> IF s = 1 THEN [NoG EXCEPT !.lastTick = StartTime] ELSE NoG]
  /\ pendingRun = FALSE
  /\ tp = [p \in 1..MaxTickers |-> IdleTick]
  /\ vp = [p \in 1..MaxValidators |-> IdleValidator]
  /\ rp = [r \in 1..MaxRunners |-> IdleRunner]
  /\ lp = IdlePolling

AdvanceLive ==
  /\ now < StartTime + LiveHorizonMs
  /\ \E d \in LiveDeltas : now' = now + d
  /\ last' = NoLast
  /\ UNCHANGED <<advances, kv, wx, g, pendingRun, tp, vp, rp, lp>>

NextLive ==
  \/ AdvanceLive
  \/ \E s \in SessionIds : LoginStatus(s)

\* time passes whatever the clients do; no request is ever required to come
SpecLive == InitLive /\ [][NextLive]_vars /\ WF_vars(AdvanceLive)

NextSlow ==
  \/ AdvanceLate
  \/ \E s \in SessionIds : LoginStatusSlow(s)

SpecSlow == InitLive /\ [][NextSlow]_vars

\* ------------------------------------------ the deprecated LoginPolling driver
\* LoginPolling polls the provider from timers: startPolling creates the
\* session and sets the first timer, every timer runs performPolling once.
\* The driver writes the record that GET /login-status reads, with the uuid
\* key beside it.  A put reaches the store up to PutLagMs after the
\* `Date.now()` of the record it writes, so the key's TTL ends that much
\* after timestamp + 300 s.

\* the states on which performPolling returns at once
PollingDone == {CONFIRMED, ERROR, EXPIRED}

\* KVStorage.createPollingSession; its status 'waiting' is, like
\* WeChatLoginStatus.WAITING, none of the states the driver tests for
createPollingSession(k, t, lag) ==
  [k EXCEPT !.sess = Append(@, [status |-> WAITING, message |-> "", wxCode |-> NoCode,
                                timestamp |-> t, exp |-> t + lag + SessionTtl * 1000]),
            !.uuid = Append(@, [uuid |-> QrUuid, exp |-> t + lag + SessionTtl * 1000])]

\* KVStorage.updatePollingStatus: the stored record, or the defaults when it
\* is gone, with the new status and message and `timestamp: Date.now()`
updatePollingStatus(k, t, lag, s, status, message) ==
  LET currentStatus == IF SessLive(k, t, s) THEN k.sess[s]
                       ELSE [status |-> WAITING, message |-> "", wxCode |-> NoCode,
                             timestamp |-> 0, exp |-> 0]
  IN [k EXCEPT !.sess[s] = [currentStatus EXCEPT !.status = status, !.message = message,
                                                 !.timestamp = t,
                                                 !.exp = t + lag + SessionTtl * 1000]]

\* LoginPolling.sendFailureEmail: a new one-time link, mailed
sendFailureEmail(k, t) == generateOneTimeLink(k, t)

\* LoginPolling.handleSessionExpired
handleSessionExpired(k, t, lag, s) ==
  sendFailureEmail(updatePollingStatus(k, t, lag, s, EXPIRED, "qr expired"), t)

\* LoginPolling.handleLoginConfirmed; in.fetchOk: CHECKIN_WORKER_URL is set and
\* the POST to /trigger-checkin reaches the worker, in.run: that run's inputs
handleLoginConfirmed(k, t, lag, s, in) ==
  LET tokenResult == exchangeWeChatCode(in.xchg)
  IN IF ~tokenResult.success \/ tokenResult.token = ""
       THEN sendFailureEmail(
              updatePollingStatus(k, t, lag, s, ERROR, tokenResult.message), t)
       ELSE LET tokenInfo == [token |-> tokenResult.token,
                              expire |-> IF tokenResult.expire # 0 THEN tokenResult.expire
                                         ELSE t + DriverTokenMs]
                k1 == setToken(k, t, tokenInfo)
                k2 == updatePollingStatus(k1, t, lag, s, CONFIRMED, "login ok")
            IN IF in.fetchOk THEN fetchTriggerCheckin(k2, t, in.run).kv ELSE k2

\* handlePollResponse setting the next timer after every signal
handlePollResponseAlwaysContinues(k, t, lag, s, pollResult, in) ==
  IF pollResult.status = 404
    THEN [kv |-> updatePollingStatus(k, t, lag, s, WAITING, "waiting for scan"), sched |-> 1]
  ELSE IF pollResult.status = 408
    THEN [kv |-> updatePollingStatus(k, t, lag, s, SCANNED, "scanned"), sched |-> 1]
  ELSE IF pollResult.status = 405
    THEN IF pollResult.wxCode # NoCode
           THEN [kv |-> handleLoginConfirmed(k, t, lag, s, in), sched |-> 1]
           ELSE [kv |-> updatePollingStatus(k, t, lag, s, ERROR, "confirmed without code"),
                 sched |-> 1]
  ELSE IF pollResult.status = 403
    THEN [kv |-> handleSessionExpired(k, t, lag, s), sched |-> 1]
  ELSE [kv |-> updatePollingStatus(k, t, lag, s, ERROR, "unknown status"), sched |-> 1]

\* LoginPolling.handlePollResponse; sched: the timers it sets
handlePollResponse(k, t, lag, s, pollResult, in) ==
  IF pollResult.status = 404
    THEN [kv |-> updatePollingStatus(k, t, lag, s, WAITING, "waiting for scan"), sched |-> 1]
  ELSE IF pollResult.status = 408
    THEN [kv |-> updatePollingStatus(k, t, lag, s, SCANNED, "scanned"), sched |-> 1]
  ELSE IF pollResult.status = 405
    THEN IF pollResult.wxCode # NoCode
           THEN [kv |-> handleLoginConfirmed(k, t, lag, s, in), sched |-> 0]
           ELSE [kv |-> updatePollingStatus(k, t, lag, s, ERROR, "confirmed without code"),
                 sched |-> 0]
  ELSE IF pollResult.status = 403
    THEN [kv |-> handleSessionExpired(k, t, lag, s), sched |-> 0]
  ELSE [kv |-> updatePollingStatus(k, t, lag, s, ERROR, "unknown status"), sched |-> 0]

\* LoginPolling.performPolling, one iteration.  found: where it returned;
\* sig: the signal of its poll; sched: the timers it set
performPolling(k, t, s, in) ==
  IF ~SessLive(k, t, s)
    THEN [kv |-> k, found |-> "missing", sig |-> "", sched |-> 0]
  ELSE IF k.sess[s].status \in PollingDone
    THEN [kv |-> k, found |-> "completed", sig |-> "", sched |-> 0]
  ELSE IF t - k.sess[s].timestamp > InactivityMs
    THEN [kv |-> handleSessionExpired(k, t, in.lag, s), found |-> "old", sig |-> "",
          sched |-> 0]
  ELSE LET pollResult == pollWeChatLogin(in.poll)
       IN IF ~pollResult.success
            THEN [kv |-> updatePollingStatus(k, t, in.lag, s, ERROR, pollResult.message),
                  found |-> "polled", sig |-> SignalOf(pollResult), sched |-> 0]
            ELSE LET h == handlePollResponse(k, t, in.lag, s, pollResult, in)
                 IN [kv |-> h.kv, found |-> "polled", sig |-> SignalOf(pollResult),
                     sched |-> h.sched]

\* the time from the setting of a timer to its iteration: the timer's second,
\* or a delay that outlasts the inactivity bound, or the record's TTL as well
PollDelays == {TimerMs, InactivityMs + 1, InactivityMs + PutLagMs + 1}

\* what an iteration on session s can meet at time t
PollingInputs(k, t, s) ==
  LET polls == SessLive(k, t, s) /\ k.sess[s].status \notin PollingDone
               /\ t - k.sess[s].timestamp <= InactivityMs
  IN UNION { UNION { UNION {
       { [poll |-> p, xchg |-> x, fetchOk |-> f, run |-> ri, lag |-> lag] :
           lag \in {0, PutLagMs} } :
         ri \in (IF f THEN CheckinInputs ELSE {NoRunInput}) } :
         f \in (IF exchangeWeChatCode(x).success THEN BOOLEAN ELSE {FALSE}) } :
         <<p, x>> \in (IF polls
                        THEN { <<p, x>> \in PollResponses \X (ExchangeResponses(t) \cup {NoExchange}) :
                                 (x # NoExchange) <=> pollWeChatLogin(p).wxCode # NoCode }
                        ELSE { <<NoPoll, NoExchange>> }) }

\* the state after LoginPolling.startPolling: the session and its first timer
InitPolling ==
  /\ now = StartTime
  /\ advances = 0
  /\ kv \in {createPollingSession(EmptyKv, StartTime, lag) : lag \in {0, PutLagMs}}
  /\ wx = "waiting"
  /\ last = NoLast
  /\ g = [s \in SessionIds |-> IF s = 1 THEN [NoG EXCEPT !.lastTick = StartTime] ELSE NoG]
  /\ pendingRun = FALSE
  /\ tp = [p \in 1..MaxTickers |-> IdleTick]
  /\ vp = [p \in 1..MaxValidators |-> IdleValidator]
  /\ rp = [r \in 1..MaxRunners |-> IdleRunner]
  /\ lp = [IdlePolling EXCEPT !.timers = 1, !.sched = 1]

\* a timer of the driver fires and runs performPolling
PollingIteration ==
  /\ lp.timers > 0
  /\ lp.iters < MaxIters
  /\ \E d \in PollDelays :
       \E in \in PollingInputs(kv, now + d, 1) :
         LET r == performPolling(kv, now + d, 1, in)
         IN /\ Len(r.kv.link) <= MaxLinks
            /\ now' = now + d
            /\ kv' = r.kv
            /\ lp' = [timers |-> lp.timers - 1 + r.sched,
                      iters |-> lp.iters + 1,
                      polls |-> lp.polls + (IF r.found = "polled" THEN 1 ELSE 0),
                      found |-> r.found, sig |-> r.sig, sched |-> r.sched]
            /\ last' = NoLast
            /\ UNCHANGED <<advances, wx, g, pendingRun, tp, vp, rp>>

\* the driver's iterations, and the page asking GET /login-status meanwhile
NextPolling ==
  \/ PollingIteration
  \/ \E s \in SessionIds : LoginStatus(s)

SpecPolling == InitPolling /\ [][NextPolling]_vars

\* ------------------------------------------------------------------ claims
\* C1 (as claimed): once the stored state of a session is CONFIRMED, EXPIRED or
\* ERROR, no later /login-status request (poll tick, then status query) and no
\* other step changes the stored state
C1_TerminalMonotone ==
  [][\A s \in SessionIds :
       (SessLive(kv, now, s) /\ kv.sess[s].status \in {CONFIRMED, EXPIRED, ERROR})
         => kv'.sess[s].status = kv.sess[s].status]_vars

\* C2 (as claimed): when the first four polls of a session receive the signals
\* of Scenario, the ticks store WAITING, WAITING, SCANNED, CONFIRMED and the
\* exchange is called exactly once over the whole run, with the code received
C2_ScenarioConfirmed ==
  \A s \in SessionIds :
    g[s].pat = Len(Scenario)
      => /\ g[s].patSt = <<WAITING, WAITING, SCANNED, CONFIRMED>>
         /\ g[s].exch = <<g[s].patCode>>

\* C2 (amended): under the signals of Scenario the ticks store WAITING, WAITING,
\* SCANNED and then CONFIRMED when the exchange succeeds, ERROR when it fails;
\* the exchange is called exactly once over the whole run, with the code received
C2_Scenario ==
  \A s \in SessionIds :
    g[s].pat = Len(Scenario)
      => /\ g[s].patSt = <<WAITING, WAITING, SCANNED,
                           IF g[s].patX THEN CONFIRMED ELSE ERROR>>
         /\ g[s].patCode \in Codes
         /\ g[s].exch = <<g[s].patCode>>

\* the scenario has run with a successful exchange and a later tick found the
\* session completed
C2_Witness ==
  /\ last.op = "login-status"
  /\ last.tick.outcome = "completed"
  /\ g[last.s].pat = Len(Scenario)
  /\ g[last.s].patX

\* C3: a session still in the store whose last tick is more than five minutes
\* back is EXPIRED after its next /login-status request, and that request
\* returns EXPIRED, whatever the provider answered
C3_IdleExpires ==
  (last.op = "login-status" /\ last.idle)
    => /\ kv.sess[last.s].status = EXPIRED
       /\ last.ret.success
       /\ last.ret.status = ToString(EXPIRED)

\* a session left in SCANNED was asked again after more than five minutes
C3_Witness ==
  /\ last.op = "login-status"
  /\ last.idle
  /\ last.tick.outcome # "completed"
  /\ kv.sess[last.s].status = EXPIRED

\* C4: a run that finds no credential, or one whose expire is not after now,
\* does not call the check-in endpoint; it generates one link and sends the
\* LOGIN_REQUIRED mail and nothing else
C4_NoCredential ==
  (last.run.ran /\ last.cred \in {"missing", "expired"})
    => /\ last.run.checkin = 0
       /\ last.run.minted = 1
       /\ last.run.mails = <<"LOGIN_REQUIRED">>

\* a run met a credential that is in the store with its expire already reached
C4_Witness ==
  /\ last.run.ran
  /\ last.cred = "expired"
  /\ last.run.minted = 1

\* C5 (as claimed): a run with a valid credential whose check-in is rejected as
\* already done or outside the time window sends the soft-failure mail only:
\* no link, no LOGIN_REQUIRED, the credential unchanged
C5_SoftFailureStops ==
  (/\ last.run.ran
   /\ last.cred = "valid"
   /\ last.run.resp \in {"already checked in", "outside time window"})
    => /\ last.run.mails = <<"CHECKIN_SOFT_FAILURE">>
       /\ last.run.minted = 0
       /\ last.run.tokSame

\* C6 (as claimed): after a tick stored a credential whose expire is after now,
\* the next /login-status request returns CONFIRMED, and the next run, finding
\* the credential valid, calls the check-in endpoint and generates no link
C6_ConfirmedThenCheckin ==
  /\ \A s \in SessionIds : (g[s].conf /\ g[s].nextQ # "") => g[s].nextQ = ToString(CONFIRMED)
  /\ (last.run.ran /\ last.afterConf /\ last.cred = "valid")
       => (last.run.checkin = 1 /\ (last.run.ok => last.run.minted = 0))

C8_OneMailPerRun ==
  (last.run.ran /\ last.cred \in {"missing", "expired", "valid"})
    => Len(last.run.mails) = 1

\* C9 (as claimed): of the validateOneTimeLink calls made for one token, in any
\* interleaving, at most one returns true, and once one has returned true the
\* token is no longer in the store
C9_SingleUse ==
  /\ Cardinality({v \in 1..MaxValidators : vp[v].pc = "done" /\ vp[v].ok}) <= 1
  /\ (\E v \in 1..MaxValidators : vp[v].pc = "done" /\ vp[v].ok)
       => ~getOneTimeLink(kv, now, RaceLink)

\* C10 (as claimed): with a provider that only moves forward, whatever the
\* interleaving of the racing ticks' reads, polls and writes, the stored state
\* of the session never goes from a terminal state to a non-terminal one, nor
\* from SCANNED to WAITING
C10_RaceNoRegress ==
  [][/\ kv.sess[RaceSession].status \in Terminal
          => kv'.sess[RaceSession].status \in Terminal
     /\ kv.sess[RaceSession].status = SCANNED
          => kv'.sess[RaceSession].status # WAITING]_vars

\* the racing ticks that received the confirmation and called the exchange
Confirmers == {p \in 1..MaxTickers : tp[p].xres # "none"}

\* C11 (as claimed): when two racing ticks both received the confirmation, the
\* exchange, the credential write and the LOGIN_SUCCESS mail each happened twice
C11_AllTwice ==
  Cardinality(Confirmers) = 2
    => /\ Len(g[RaceSession].exch) = 2
       /\ g[RaceSession].ntok = 2
       /\ g[RaceSession].nmail = 2

\* C11 (amended): every racing tick that received the confirmation called the
\* exchange, and the credential write and the LOGIN_SUCCESS mail happened once
\* for each of these calls that succeeded: nothing limits them to one a session
C11_OncePerConfirmer ==
  /\ Len(g[RaceSession].exch) = Cardinality(Confirmers)
  /\ g[RaceSession].ntok = Cardinality({p \in Confirmers : tp[p].xres = "ok"})
  /\ g[RaceSession].nmail = Cardinality({p \in Confirmers : tp[p].xres = "ok"})

\* two racing ticks both exchanged the code with success: two writes, two mails
C11_Witness ==
  /\ Cardinality({p \in 1..MaxTickers : tp[p].xres = "ok"}) = 2
  /\ g[RaceSession].ntok = 2
  /\ g[RaceSession].nmail = 2

\* C12: a poll that fails (fetch throws, non-2xx status, or a status code
\* outside 403, 404, 405 with code, 408) leaves the session stored as ERROR
\* with the failure's message, and the request goes on to return that status
C12_FailureCaptured ==
  (/\ last.op = "login-status"
   /\ last.tick.outcome = "polled"
   /\ last.tick.sig \in {"TRANSPORT", "UNRECOGNIZED"})
    => /\ kv.sess[last.s].status = ERROR
       /\ last.tick.detail # ""
       /\ kv.sess[last.s].message = last.tick.detail
       /\ last.ret = [success |-> TRUE, status |-> ToString(ERROR),
                      message |-> last.tick.detail]

\* a tick received a status code outside the known ones
C12_Witness ==
  /\ last.op = "login-status"
  /\ last.tick.outcome = "polled"
  /\ last.tick.sig = "UNRECOGNIZED"
  /\ kv.sess[last.s].status = ERROR

\* C13 (as claimed): every write of a session record gives it TTL 300 s when
\* the state written is WAITING or SCANNED and TTL 3600 s when it is terminal
C13_TtlByState ==
  [][\A s \in 1..Len(kv'.sess) :
       (s > Len(kv.sess) \/ kv'.sess[s] # kv.sess[s])
         => kv'.sess[s].exp =
              now' + (IF kv'.sess[s].status \in {WAITING, SCANNED}
                        THEN SessionTtl ELSE CompletedTtl) * 1000]_vars

\* C14: a credential counts as valid exactly when it is in the store and its
\* expire is after now: isTokenValid says so in every state, and a run calls
\* the check-in endpoint exactly when it finds such a credential
C14_ValidIffUnexpired ==
  /\ isTokenValid(kv, now) <=> (kv.tok.has /\ now < kv.tok.exp /\ kv.tok.expire > now)
  /\ (last.run.ran /\ last.cred # "unreadable")
       => (last.run.checkin = 1 <=> last.cred = "valid")

\* a run met a stored credential whose expire equals now
C14_Witness ==
  /\ last.run.ran
  /\ last.cred = "expired"
  /\ kv.tok.has /\ now < kv.tok.exp /\ kv.tok.expire = now
  /\ ~isTokenValid(kv, now)
  /\ last.run.checkin = 0

\* the expire values setToken is tried with, as distances from now
SetTokenOffsets == ExpireOffsets \cup {-500, 299999, 300999, 301000}

\* tok was written at time t with TTL max(300, floor((expire - t) / 1000))
TtlAsSpecified(tok, t) ==
  LET ttl == (tok.exp - t) \div 1000
      d == tok.expire - t
  IN /\ tok.exp = t + ttl * 1000
     /\ ttl >= MinTokenTtl
     /\ \/ ttl = MinTokenTtl /\ d < (MinTokenTtl + 1) * 1000
        \/ ttl > MinTokenTtl /\ ttl * 1000 <= d /\ d < (ttl + 1) * 1000

\* C15: the credential is stored with TTL max(300, floor((expire - now) / 1000))
\* seconds, never less than 300, by the tick and by KVStorage.setToken alike,
\* also when expire is in the past
C15_TtlFloor ==
  /\ (last.op = "login-status" /\ last.tick.stored) => TtlAsSpecified(kv.tok, now)
  /\ \A d \in SetTokenOffsets :
       TtlAsSpecified(setToken(kv, now, [token |-> "Bearer tokA", expire |-> now + d]).tok, now)

\* a tick stored a credential whose expire is already past, for 300 seconds
C15_Witness ==
  /\ last.op = "login-status"
  /\ last.tick.stored
  /\ kv.tok.expire < now
  /\ kv.tok.exp = now + MinTokenTtl * 1000

\* C16 (as claimed): when the exchange response carries a token and no expiry,
\* the tick stores a credential with expire = now + the default horizon and
\* the session becomes CONFIRMED
C16_MissingExpiryDefault ==
  (last.op = "login-status" /\ last.tick.noExpiry)
    => /\ last.tick.stored
       /\ last.tick.status = CONFIRMED
       /\ kv.tok.has
       /\ kv.tok.expire = now + DefaultTokenMs

\* C17: the credential changes only in a /login-status request whose tick
\* stored it after a successful exchange; a run of scheduled() changes neither
\* the credential nor any session record or uuid key, whatever its inputs
C17_CredentialFrame ==
  [][/\ kv'.tok # kv.tok
          => (last'.op = "login-status" /\ last'.tick.stored /\ kv'.tok.has)
     /\ last'.op \in {"cron", "manual"}
          => (kv'.tok = kv.tok /\ kv'.sess = kv.sess /\ kv'.uuid = kv.uuid)
     /\ \A in \in CheckinInputs :
          LET r == scheduled(kv, now, in)
          IN r.kv.tok = kv.tok /\ r.kv.sess = kv.sess /\ r.kv.uuid = kv.uuid]_vars

\* a run whose check-in failed asked for a new login and left the credential
C17_Witness ==
  /\ last.op \in {"cron", "manual"}
  /\ last.run.checkin = 1
  /\ last.run.minted = 1
  /\ kv.tok.has
  /\ Len(kv.sess) > 0

\* C18 (as claimed): a tick whose exchange succeeded triggers exactly one
\* check-in run, after the credential is written, and that run finds a valid
\* credential and goes to the check-in
C18_ExactlyOneValidRun ==
  (last.op = "login-status" /\ last.tick.stored)
    => (last.tick.triggered /\ last.run.ran /\ last.run.checkin = 1)

\* C18 (amended): a tick triggers a check-in run only when its exchange
\* succeeded and the credential is written, and then at most once: the run
\* happens exactly when the POST /trigger-checkin goes through, and it reads
\* the credential just written, going to the check-in iff its expire is after now
C18_TriggerAfterStore ==
  last.op = "login-status"
    => /\ last.run.ran => (last.tick.stored /\ last.tick.triggered)
       /\ last.tick.triggered => (last.tick.stored /\ last.run.ran)
       /\ (last.run.ran /\ last.cred # "unreadable")
            => (last.run.checkin = 1 <=> kv.tok.expire > now)

\* a tick stored the credential and its triggered run called the check-in
C18_Witness ==
  /\ last.op = "login-status"
  /\ last.tick.stored
  /\ last.tick.triggered
  /\ last.run.checkin = 1

\* C19: a notifier failure does not raise out of a check-in run or a poll tick
\* and does not change what they write: from every reachable store, with the
\* same provider answers, a run and a tick whose mails are all refused end
\* normally with the same store, the same session status and the same record of
\* the run as when the mails are accepted
C19_MailFailureIgnored ==
  /\ \A in \in RunInputs(kv, now) :
       LET a == scheduled(kv, now, [in EXCEPT !.mailOk = TRUE])
           b == scheduled(kv, now, [in EXCEPT !.mailOk = FALSE])
       IN a.kv = b.kv /\ a.run = b.run
  /\ \A s \in 1..Len(kv.sess) : \A in \in TickInputs(kv, now, s) :
       LET a == processPollingSession(kv, now, s,
                                      [in EXCEPT !.mailOk = TRUE, !.run.mailOk = TRUE])
           b == processPollingSession(kv, now, s,
                                      [in EXCEPT !.mailOk = FALSE, !.run.mailOk = FALSE])
       IN a.kv = b.kv /\ a.tick = b.tick /\ a.run = b.run

\* a tick during which a mail was refused wrote the credential and CONFIRMED,
\* and the run it triggered performed the check-in
C19_Witness ==
  /\ last.op = "login-status" /\ ~last.mailOk
  /\ last.tick.stored /\ last.tick.triggered /\ last.run.checkin = 1
  /\ kv.sess[last.s].status = CONFIRMED /\ kv.tok.has

\* C20: a manual trigger and a scheduled trigger execute the same procedure:
\* from every reachable store and for every answer of the store read, the
\* check-in endpoint and the mail provider, POST /trigger-checkin leaves the
\* same store and the same record of the run (calls of the check-in endpoint,
\* links written, notifications in order) as scheduled()
C20_ManualEqualsScheduled ==
  \A in \in RunInputs(kv, now) :
    LET m == fetchTriggerCheckin(kv, now, in)
        c == scheduled(kv, now, in)
    IN m.kv = c.kv /\ m.run = c.run

\* a manual trigger ran the whole procedure: with no usable credential in the
\* store it wrote a link and sent the login-required mail
C20_Witness ==
  /\ last.op = "manual" /\ last.run.ran
  /\ last.run.checkin = 0 /\ last.run.minted = 1
  /\ last.run.mails = <<"LOGIN_REQUIRED">>
  /\ Len(kv.link) >= 1

\* the answers the provider, the mail service and the worker itself could
\* give to a tick at time t if it asked, whatever the store holds
AnswersAt(t) ==
  [poll : PollResponses, xchg : ExchangeResponses(t), fetchOk : {TRUE},
   run : {[readFails |-> FALSE, checkin |-> "checked in", mailOk |-> TRUE]},
   mailOk : {TRUE}]

\* C21: a tick on a session whose stored state is already terminal is a no-op:
\* whatever the provider would answer, it leaves the store as it is (so a
\* repeated tick meets the same store and does the same), polls nothing,
\* exchanges no code, sends no mail and triggers no check-in
C21_TerminalTickNoOp ==
  \A s \in SessionIds :
    (SessLive(kv, now, s) /\ kv.sess[s].status \in Terminal)
      => \A in \in AnswersAt(now) :
           LET a == processPollingSession(kv, now, s, in)
           IN /\ a.kv = kv
              /\ a.tick = [NoTick EXCEPT !.outcome = "completed"]
              /\ a.run = NoRun

\* a /login-status request met a terminal session whose uuid key was still in
\* the store, so that only the completed test kept its tick from polling
C21_Witness ==
  /\ last.op = "login-status"
  /\ last.tick.outcome = "completed"
  /\ UuidLive(kv, now, last.s)
  /\ kv.sess[last.s].status \in Terminal

\* C22: when the provider signals CONFIRMED with a code and the exchange fails
\* (the request fails, the endpoint answers an error status, or the answer
\* lacks the token or its expiry), the tick stores the session as ERROR with
\* the exchange's failure message, leaves the credential and the links as they
\* are, sends no mail and triggers no check-in
C22_ExchangeFailureIsError ==
  \A s \in SessionIds : \A in \in TickInputs(kv, now, s) :
    (/\ tickRead(kv, now, s) = "poll"
     /\ SignalOf(pollWeChatLogin(in.poll)) = "CONFIRMED"
     /\ ~exchangeWeChatCode(in.xchg).success)
      => LET a == processPollingSession(kv, now, s, in)
         IN /\ a.kv.sess[s].status = ERROR
            /\ a.kv.sess[s].message = exchangeWeChatCode(in.xchg).message
            /\ a.kv.sess[s].message # pollWeChatLogin(in.poll).message
            /\ a.kv.tok = kv.tok
            /\ a.kv.link = kv.link
            /\ a.tick.mails = <<>>
            /\ ~a.tick.stored /\ ~a.tick.triggered
            /\ a.run = NoRun

\* a tick received the confirmation, the exchange answered without the token
\* fields, and the session is stored as ERROR with that failure as message
C22_Witness ==
  /\ last.op = "login-status"
  /\ last.tick.sig = "CONFIRMED" /\ last.tick.code \in Codes
  /\ ~last.tick.xok
  /\ kv.sess[last.s].status = ERROR
  /\ kv.sess[last.s].message = "token fetch failed"

\* C23 (as claimed): a session record in the store carries an authorization
\* code (wxCode) only if its stored state is CONFIRMED
C23_CodeOnlyWhenConfirmed ==
  \A s \in SessionIds :
    (SessLive(kv, now, s) /\ kv.sess[s].wxCode # NoCode)
      => kv.sess[s].status = CONFIRMED

\* C24: a tick on a non-terminal session that receives STILL_WAITING,
\* SCANNED_PENDING_CONFIRM or CHALLENGE_EXPIRED stores WAITING, SCANNED or
\* EXPIRED respectively and changes nothing but the session's record: no code
\* is exchanged, the credential, the links and the other keys stay as they
\* are, no mail is sent and no check-in is triggered
C24_PlainSignalOnlyStores ==
  \A s \in SessionIds : \A in \in TickInputs(kv, now, s) :
    LET sig == SignalOf(pollWeChatLogin(in.poll))
    IN (/\ tickRead(kv, now, s) = "poll"
        /\ sig \in {"STILL_WAITING", "SCANNED_PENDING_CONFIRM", "CHALLENGE_EXPIRED"})
         => LET a == processPollingSession(kv, now, s, in)
            IN /\ sig = "STILL_WAITING" => a.kv.sess[s].status = WAITING
               /\ sig = "SCANNED_PENDING_CONFIRM" => a.kv.sess[s].status = SCANNED
               /\ sig = "CHALLENGE_EXPIRED" => a.kv.sess[s].status = EXPIRED
               /\ a.kv.sess[s].wxCode = kv.sess[s].wxCode
               /\ a.kv = [kv EXCEPT !.sess[s] = a.kv.sess[s]]
               /\ in.xchg = NoExchange
               /\ a.tick.code = NoCode
               /\ a.tick.mails = <<>>
               /\ ~a.tick.stored /\ ~a.tick.triggered
               /\ a.run = NoRun

\* a tick on a WAITING session received SCANNED_PENDING_CONFIRM and the
\* session is stored as SCANNED
C24_Witness ==
  /\ last.op = "login-status"
  /\ last.tick.outcome = "polled"
  /\ last.tick.sig = "SCANNED_PENDING_CONFIRM"
  /\ kv.sess[last.s].status = SCANNED
  /\ ~kv.tok.has

\* C25 (as claimed): over the sequential requests on a session the stored
\* state of a non-terminal session only moves along the transition table: from
\* WAITING to WAITING, SCANNED, CONFIRMED, EXPIRED or ERROR, from SCANNED to
\* SCANNED, CONFIRMED, EXPIRED or ERROR, and never from SCANNED back to WAITING
C25_TableTransitionsOnly ==
  [][\A s \in SessionIds :
       SessLive(kv, now, s)
         => /\ kv.sess[s].status = WAITING
                 => kv'.sess[s].status \in {WAITING, SCANNED, CONFIRMED, EXPIRED, ERROR}
            /\ kv.sess[s].status = SCANNED
                 => kv'.sess[s].status \in {SCANNED, CONFIRMED, EXPIRED, ERROR}]_vars

\* C26 (as claimed): a session that is not terminal and whose last tick is
\* less than the inactivity bound back is not forced to EXPIRED by a
\* /login-status request: if it is EXPIRED after the request, the request's
\* tick polled the provider and received CHALLENGE_EXPIRED
C26_NoForcedExpiryWhileTicked ==
  [][\A s \in SessionIds :
       (/\ last'.op = "login-status" /\ last'.s = s
        /\ SessLive(kv, now, s)
        /\ kv.sess[s].status \notin Terminal
        /\ now - g[s].lastTick < InactivityMs
        /\ kv'.sess[s].status = EXPIRED)
         => /\ last'.tick.outcome = "polled"
            /\ last'.tick.sig = "CHALLENGE_EXPIRED"]_vars

RECURSIVE MintedBy(_)
MintedBy(n) == IF n = 0 THEN 0 ELSE rp[n].minted + MintedBy(n - 1)

\* C28: overlapping runs are not deduplicated: every finished run that
\* overlapped another one and read a usable credential submitted its own
\* check-in, every one that found none generated its own link and sent its own
\* LOGIN_REQUIRED, and the store holds one link for each link generated
C28_NoDeduplication ==
  /\ \A r \in 1..MaxRunners :
       (rp[r].pc = "done" /\ rp[r].ov)
         => /\ rp[r].valid => rp[r].checkin = 1
            /\ ~rp[r].valid => /\ rp[r].checkin = 0
                                /\ rp[r].minted = 1
                                /\ rp[r].mails = <<"LOGIN_REQUIRED">>
  /\ Len(kv.link) = MintedBy(MaxRunners)

\* two overlapping runs found no usable credential and the store holds the
\* link of each
C28_Witness ==
  /\ \A r \in 1..2 : rp[r].pc = "done" /\ rp[r].ov /\ ~rp[r].valid
                        /\ rp[r].mails = <<"LOGIN_REQUIRED">>
  /\ Len(kv.link) = 2

\* C29: every started session eventually is in a terminal state or has left
\* the store: as long as time passes, and whether or not status requests keep
\* coming, a non-terminal session in the store does not stay so forever; no
\* cancel operation is involved
C29_EventuallyTerminalOrEvicted ==
  \A s \in SessionIds :
    (SessLive(kv, now, s) /\ kv.sess[s].status \notin Terminal)
      ~> (~SessLive(kv, now, s) \/ kv.sess[s].status \in Terminal)

\* a session that a tick left in SCANNED and nobody asked about again has
\* expired from the store without ever being terminal
C29_Witness ==
  /\ Len(kv.sess) = 1
  /\ kv.sess[1].status = SCANNED
  /\ ~SessLive(kv, now, 1)
  /\ now >= kv.sess[1].exp

\* C30: a status query that finds the session returns the state and the
\* message stored for it when the call ends: the returned status is the text
\* of the stored status code, the returned message is the stored message, and
\* when the request's tick polled without exchanging a code that message is
\* the one the poll gave
C30_QueryReturnsStored ==
  (last.op = "login-status" /\ last.ret.success)
    => /\ last.ret.status = ToString(kv.sess[last.s].status)
       /\ last.ret.message = kv.sess[last.s].message
       /\ (last.tick.outcome = "polled" /\ last.tick.code = NoCode)
            => last.ret.message = last.tick.detail

\* a status query forced a SCANNED session to EXPIRED and returned "403" with
\* the message of the last poll
C30_Witness ==
  /\ last.op = "login-status" /\ last.ret.success
  /\ last.tick.outcome = "nouuid"
  /\ last.ret.status = "403"
  /\ last.ret.message = "scanned"
  /\ kv.sess[last.s].status = EXPIRED

C33_ConfirmedAfterCredential ==
  /\ \A s \in SessionIds :
       (s \in 1..Len(kv.sess) /\ kv.sess[s].status = CONFIRMED)
         => /\ kv.sess[s].wxCode \in Codes
            /\ \E i \in 1..Len(g[s].exch) : g[s].exch[i] = kv.sess[s].wxCode
            /\ g[s].ntok >= 1
  /\ (last.op = "login-status" /\ last.tick.status = CONFIRMED)
       => last.tick.xok /\ last.tick.stored /\ last.tick.code \in Codes

\* a tick has just stored CONFIRMED and the credential it wrote is in the store
C33_Witness ==
  /\ last.op = "login-status"
  /\ last.tick.status = CONFIRMED /\ last.tick.stored
  /\ kv.sess[last.s].status = CONFIRMED
  /\ g[last.s].ntok = 1
  /\ kv.tok.has /\ kv.tok.token = "Bearer tokA"

\* C34: a status request whose query forced the session to EXPIRED because
\* the record is older than the inactivity bound performed no code exchange,
\* wrote no credential, sent no login-success mail and triggered no check-in
C34_ForcedExpiryQueryIsIdle ==
  (/\ last.op = "login-status"
   /\ last.ret.success
   /\ sessionExpired(kv.sess[last.s], now))
    => /\ last.tick.code = NoCode
       /\ ~last.tick.xok
       /\ ~last.tick.stored
       /\ last.tick.mails = <<>>
       /\ ~last.tick.triggered
       /\ last.run = NoRun

\* C35: with requests served one at a time, a step that starts a polling
\* session is a GET /auth/{token} whose validateOneTimeLink returned true: the
\* presented link was in the store, valid, and is gone afterwards, and exactly
\* one session was started; links enter the store only by being minted.
\* Sessions started plus links stored therefore never grow by more than the
\* links minted in the step, and the sessions ever started never exceed the
\* links ever minted
C35_SessionNeedsValidatedLink ==
  [][/\ Len(kv'.sess) >= Len(kv.sess)
     /\ Len(kv'.sess) > Len(kv.sess)
          => /\ last'.op = "auth" /\ last'.valid /\ last'.started
             /\ LinkLive(kv, now, last'.s)
             /\ linkDataValid(kv.link[last'.s], now)
             /\ Len(kv'.sess) = Len(kv.sess) + 1
             /\ Len(kv'.link) = Len(kv.link) - 1
     /\ (last'.op = "auth" /\ ~last'.valid) => kv'.sess = kv.sess
     /\ Len(kv'.link) > Len(kv.link)
          => Len(kv'.link) - Len(kv.link) = last'.run.minted
     /\ Len(kv'.sess) + Len(kv'.link)
          <= Len(kv.sess) + Len(kv.link) + last'.run.minted]_vars

\* a presented link was accepted and consumed and a session was started on it
C35_Witness ==
  /\ last.op = "auth" /\ last.valid /\ last.started
  /\ Len(kv.sess) = 1 /\ Len(kv.link) = 0
  /\ kv.sess[1].status = WAITING /\ kv.sess[1].timestamp = now

\* C36: a run of scheduled() whose read of the credential fails sends the
\* SYSTEM_ERROR mail and nothing else: it does not call the check-in
\* endpoint, generates no link, leaves the store as it was and returns (its
\* result is the run's record, whether or not the mail provider took the mail)
C36_ReadFailureOnlyReports ==
  /\ \A in \in RunInputs(kv, now) :
       in.readFails
         => LET r == scheduled(kv, now, in)
            IN /\ r.kv = kv
               /\ r.run.ran
               /\ r.run.mails = <<"SYSTEM_ERROR">>
               /\ r.run.checkin = 0
               /\ r.run.minted = 0
  /\ last.cred = "unreadable"
       => last.run = [NoRun EXCEPT !.ran = TRUE, !.mails = <<"SYSTEM_ERROR">>]

\* a cron run could not read a credential that is in the store and usable,
\* and reported the error
C36_Witness ==
  /\ last.op = "cron"
  /\ last.cred = "unreadable"
  /\ last.run.mails = <<"SYSTEM_ERROR">> /\ last.run.checkin = 0
  /\ tokenUsable(kv, now)

\* C37: for a session id whose record is not in the store (never started, or
\* expired), a tick returns at its first read, without polling the provider
\* and without a write, and the status query writes nothing and returns the
\* failure result; a /login-status request for such an id leaves the store as
\* it was, sends nothing and runs nothing
C37_UnknownSessionUntouched ==
  /\ \A s \in 1..(MaxSessions + 1) :
       ~SessLive(kv, now, s)
         => /\ tickRead(kv, now, s) = "notfound"
            /\ \A in \in TickInputs(kv, now, s) :
                 /\ in.poll = NoPoll /\ in.xchg = NoExchange
                 /\ processPollingSession(kv, now, s, in)
                      = [kv |-> kv, tick |-> NoTick, run |-> NoRun]
            /\ getPollingStatus(kv, now, s) = [kv |-> kv, ret |-> NoRet]
  /\ (last.op = "login-status" /\ ~last.live)
       => /\ last.tick = NoTick
          /\ last.run = NoRun
          /\ last.ret = NoRet /\ ~last.ret.success

\* a /login-status request came for a session whose record had expired from
\* the store, and got the failure result
C37_Witness ==
  /\ last.op = "login-status"
  /\ ~last.live
  /\ Len(kv.sess) >= last.s /\ kv.sess[last.s].exp <= now
  /\ last.tick.outcome = "notfound"
  /\ ~last.ret.success

\* C38: the uuid key of a session expires SessionTtl seconds after the
\* session's start and is never written again; a tick on a stored session
\* that is WAITING or SCANNED and whose uuid key is no longer in the store
\* returns without polling the provider and leaves the store, the session
\* record included, as it was
C38_NoUuidNoPoll ==
  /\ \A s \in 1..Len(kv.sess) :
       kv.uuid[s].exp = kv.sess[s].timestamp + SessionTtl * 1000
  /\ \A s \in SessionIds :
       (SessLive(kv, now, s) /\ kv.sess[s].status \notin Terminal /\ ~UuidLive(kv, now, s))
         => /\ tickRead(kv, now, s) = "nouuid"
            /\ \A in \in TickInputs(kv, now, s) :
                 /\ in.poll = NoPoll /\ in.xchg = NoExchange
                 /\ processPollingSession(kv, now, s, in)
                      = [kv |-> kv, tick |-> [NoTick EXCEPT !.outcome = "nouuid"],
                         run |-> NoRun]
  /\ (last.op = "login-status" /\ last.tick.outcome = "nouuid")
       => last.tick = [NoTick EXCEPT !.outcome = "nouuid"] /\ last.run = NoRun

\* a tick found a stored non-terminal session without its uuid key
C38_Witness ==
  /\ last.op = "login-status"
  /\ last.live
  /\ last.tick.outcome = "nouuid"
  /\ kv.uuid[last.s].exp <= now
  /\ kv.sess[last.s].wxCode = NoCode

\* C39: an iteration of the LoginPolling driver sets at most one timer, and
\* sets one only after a poll that answered STILL_WAITING or
\* SCANNED_PENDING_CONFIRM; an iteration that finds the session missing from
\* the store, stored as CONFIRMED, EXPIRED or ERROR, or last updated more than
\* five minutes ago sets no timer and does not poll the provider; the driver
\* never has more than one timer pending, and none once an iteration has
\* set none
C39_PollingStops ==
  [][lp'.iters > lp.iters
       => /\ lp'.sched \in {0, 1}
          /\ lp'.sched = 1
               => /\ lp'.found = "polled"
                  /\ lp'.sig \in {"STILL_WAITING", "SCANNED_PENDING_CONFIRM"}
          /\ (\/ ~SessLive(kv, now', 1)
              \/ kv.sess[1].status \in {CONFIRMED, EXPIRED, ERROR}
              \/ now' - kv.sess[1].timestamp > InactivityMs)
               => /\ lp'.sched = 0
                  /\ lp'.polls = lp.polls
                  /\ lp'.found # "polled"
          /\ lp'.timers = lp.timers - 1 + lp'.sched
          /\ lp'.timers <= 1
          /\ lp'.sched = 0 => lp'.timers = 0]_vars

\* the driver polled, continued, and then found the session completed by
\* someone else and stopped without polling
C39_Witness ==
  /\ lp.iters >= 2
  /\ lp.polls = lp.iters - 1
  /\ lp.found = "completed"
  /\ lp.timers = 0
====
